---- MODULE Spec2Model ----
(***************************************************************************)
(* Model of core/openai_client.py: class OpenAIClient.                     *)
(*                                                                         *)
(*   - _combine_input_and_model_kwargs on a heap of dict objects, so that  *)
(*     copying and aliasing are different things;                          *)
(*   - __init__, _init_sync_client, _init_async_client on the process      *)
(*     environment and the two client fields;                              *)
(*   - _call and _acall under @backoff.on_exception(backoff.expo, (...),   *)
(*     max_time=5): the decorator's retry loop, one step per attempt       *)
(*     begun and one per attempt completed.                                *)
(*                                                                         *)
(* Time is counted in whole seconds, per call, from the call's first       *)
(* attempt.  A provider round trip takes between 1 and MaxDur seconds.     *)
(***************************************************************************)
EXTENDS Integers, Sequences, FiniteSets

VARIABLES
    heap,          \* dict objects: heap[ref] is the mapping held by object ref
    results,       \* the dicts returned so far, in order: [ref, base, expect], expect being
                   \* the mapping at return plus what the caller wrote to that dict since
    build,         \* the arguments and outcome of the latest _combine_input_and_model_kwargs
    env,           \* os.environ's OPENAI_API_KEY: "unset", "empty" or "set"
    constructed,   \* "no" before OpenAIClient(), then "ok" or "failed"
    sync_client,   \* self.sync_client: 0 while absent, else a handle id
    async_client,  \* self.async_client: 0 for None, else a handle id
    handles,       \* every handle ever constructed, in order: "sync" or "async"
    requests,      \* what provider requests were sent on: [kind, client, endpoint]
    calls          \* per call slot: the state of one _call / _acall invocation

vars == <<heap, results, build, env, constructed, sync_client,
          async_client, handles, requests, calls>>

kwargsVars == <<heap, results, build>>
clientVars == <<env, constructed, sync_client, async_client, handles, requests, calls>>

-----------------------------------------------------------------------------
(* Bounds of the model *)

MaxResults == 2      \* dicts returned by _combine_input_and_model_kwargs in one behaviour
MaxDur == 2          \* longest provider round trip, in seconds

-----------------------------------------------------------------------------
(* Python values.  Every value is a record of its type, its text (for a str) *)
(* and its items (for a container), so that "x" and ["x"] are different.     *)

Str(s) == [type |-> "str", text |-> s, items |-> <<>>]
List(q) == [type |-> "list", text |-> "", items |-> q]
Tuple(q) == [type |-> "tuple", text |-> "", items |-> q]
Bytes(s) == [type |-> "bytes", text |-> s, items |-> <<>>]
ByteArray(s) == [type |-> "bytearray", text |-> s, items |-> <<>>]
MemoryView(s) == [type |-> "memoryview", text |-> s, items |-> <<>>]
Deque(q) == [type |-> "deque", text |-> "", items |-> q]
Range(q) == [type |-> "range", text |-> "", items |-> q]
Array(q) == [type |-> "array", text |-> "", items |-> q]
UserSequence(q) == [type |-> "Sequence", text |-> "", items |-> q]
SetVal(q) == [type |-> "set", text |-> "", items |-> q]
IntVal(s) == [type |-> "int", text |-> s, items |-> <<>>]
DictVal(q) == [type |-> "dict", text |-> "", items |-> q]
NoneVal == [type |-> "NoneType", text |-> "", items |-> <<>>]

\* isinstance(input, str)
IsStr(v) == v.type = "str"

\* The types for which isinstance(input, typing.Sequence) is true: the
\* built-in and standard-library classes registered with
\* collections.abc.Sequence or MutableSequence, and "Sequence" for any class
\* of the caller's that subclasses or is registered with it.
SequenceTypes ==
    {"str", "list", "tuple", "bytes", "range", "bytearray", "memoryview",
     "deque", "array", "Sequence"}

\* isinstance(input, Sequence)
IsSequence(v) == v.type \in SequenceTypes

\* [input] for a str input
WrapInList(v) == List(<<v.text>>)

ModelTypes == {"EMBEDDER", "LLM", "UNDEFINED", "RERANKER"}

-----------------------------------------------------------------------------
(* dict objects *)

EmptyDict == [k \in {} |-> NoneVal]

\* d[k] = v on a mapping
DictSet(d, k, v) == [x \in (DOMAIN d) \cup {k} |-> IF x = k THEN v ELSE d[x]]

\* obj[k] = v on the object ref of heap h
StoreKey(h, ref, k, v) == [h EXCEPT ![ref] = DictSet(h[ref], k, v)]

\* final_model_kwargs = combined_model_kwargs: no copy, the same object
DictAlias(h, ref) == [heap |-> h, ref |-> ref]

\* combined_model_kwargs.copy(): a new object with the same keys and values
DictCopy(h, ref) == [heap |-> Append(h, h[ref]), ref |-> Len(h) + 1]

InvalidInputError == "AssertionError: input must be a sequence"
UnsupportedModelTypeError == "ValueError: model_type is not supported"
ConfigurationError == "ValueError: Environment variable OPENAI_API_KEY must be set"

\* the string branch dropped: a str input is stored as it is
NormalizeNoWrap(input) == input

\* lines 51-52: if isinstance(input, str): input = [input]
NormalizeEmbedderInput(input) == IF IsStr(input) THEN WrapInList(input) ELSE input

\* the LLM branch storing under the embedder's key
LLMKeyInput == "input"

\* line 59: the key the LLM branch stores the input under
LLMKey == "messages"

\* the else branch falling through to return the copy
UnsupportedReturnsCopy(h, c) == [status |-> "ok", heap |-> c.heap, ref |-> c.ref]

\* lines 60-61: raise ValueError(f"model_type {model_type} is not supported")
UnsupportedModelType(h, c) == [status |-> UnsupportedModelTypeError, heap |-> h, ref |-> 0]

\* _combine_input_and_model_kwargs(input, combined_model_kwargs, model_type) on
\* heap h: the heap afterwards, and the returned ref or the exception raised.
\* A copy made by a call that raises is unreachable and is dropped.
CombineInputAndModelKwargs(h, input, base, model_type) ==
    LET c == DictCopy(h, base)
    IN  IF model_type = "EMBEDDER"
        THEN LET inp == NormalizeEmbedderInput(input)
             IN  IF ~IsSequence(inp)
                 THEN [status |-> InvalidInputError, heap |-> h, ref |-> 0]
                 ELSE [status |-> "ok",
                       heap |-> StoreKey(c.heap, c.ref, "input", inp),
                       ref |-> c.ref]
        ELSE IF model_type = "LLM"
        THEN IF ~IsSequence(input)
             THEN [status |-> InvalidInputError, heap |-> h, ref |-> 0]
             ELSE [status |-> "ok",
                   heap |-> StoreKey(c.heap, c.ref, LLMKey, input),
                   ref |-> c.ref]
        ELSE UnsupportedModelType(h, c)

-----------------------------------------------------------------------------
(* The caller's side of _combine_input_and_model_kwargs *)

\* The dicts the caller owns before any call.  Object 1 is the one dict that
\* the default argument combined_model_kwargs = {} evaluates to.
InitialHeap ==
    << EmptyDict,
       DictSet(EmptyDict, "model", Str("gpt")),
       DictSet(DictSet(EmptyDict, "model", Str("gpt")), "input", Str("stale")) >>

Bases == DOMAIN InitialHeap

\* inputs of every shape the isinstance tests tell apart
AllInputs ==
    { Str("x"), Str(""), List(<<>>), List(<<"a", "b">>), List(<<"b", "a">>),
      Tuple(<<"a">>), Bytes("x"), ByteArray("x"), MemoryView("x"), Deque(<<"a">>),
      Range(<<"0", "1">>), Array(<<"1">>), UserSequence(<<"a">>),
      IntVal("42"), DictVal(<<"k">>), SetVal(<<"a">>), NoneVal }

\* the inputs of the behaviours that build several dicts
FewInputs == { Str("x"), List(<<"a", "b">>), IntVal("42") }

NoBuild ==
    [status |-> "none", input |-> NoneVal, base |-> 0, model_type |-> "UNDEFINED",
     ref |-> 0, before |-> EmptyDict, after |-> EmptyDict, value |-> EmptyDict]

PendingBuild(input, base, model_type) ==
    [status |-> "pending", input |-> input, base |-> base, model_type |-> model_type,
     ref |-> 0, before |-> heap[base], after |-> EmptyDict, value |-> EmptyDict]

\* the caller is about to call _combine_input_and_model_kwargs(input, base, model_type)
ChooseArgs(inputs) ==
    /\ build.status # "pending"
    /\ Len(results) < MaxResults
    /\ \E input \in inputs, base \in Bases, model_type \in ModelTypes :
           build' = PendingBuild(input, base, model_type)
    /\ UNCHANGED <<heap, results>>
    /\ UNCHANGED clientVars

\* the call itself, lines 49-62
Combine ==
    /\ build.status = "pending"
    /\ LET r == CombineInputAndModelKwargs(heap, build.input, build.base, build.model_type)
       IN  /\ heap' = r.heap
           /\ build' = [build EXCEPT !.status = r.status,
                                     !.ref = r.ref,
                                     !.after = r.heap[build.base],
                                     !.value = IF r.status = "ok" THEN r.heap[r.ref]
                                               ELSE EmptyDict]
           /\ results' = IF r.status = "ok"
                         THEN Append(results, [ref |-> r.ref, base |-> build.base,
                                               expect |-> r.heap[r.ref]])
                         ELSE results
    /\ UNCHANGED clientVars

ChangedValue == Str("changed")

\* the caller adds or replaces the key "input" in a dict it was returned
MutateResult ==
    /\ \E i \in DOMAIN results :
           /\ IF "input" \in DOMAIN results[i].expect
              THEN results[i].expect["input"] # ChangedValue
              ELSE TRUE
           /\ heap' = StoreKey(heap, results[i].ref, "input", ChangedValue)
           /\ results' = [results EXCEPT ![i].expect = DictSet(@, "input", ChangedValue)]
    /\ UNCHANGED build
    /\ UNCHANGED clientVars

ClientIdle ==
    /\ env = "set"
    /\ constructed = "no"
    /\ sync_client = 0
    /\ async_client = 0
    /\ handles = <<>>
    /\ requests = {}
    /\ calls = <<>>

\* one call of _combine_input_and_model_kwargs, on arguments of every shape
InitCombine ==
    /\ heap = InitialHeap
    /\ results = <<>>
    /\ \E input \in AllInputs, base \in Bases, model_type \in ModelTypes :
           build = [status |-> "pending", input |-> input, base |-> base,
                    model_type |-> model_type, ref |-> 0, before |-> InitialHeap[base],
                    after |-> EmptyDict, value |-> EmptyDict]
    /\ ClientIdle

NextCombine == Combine

SpecCombine == InitCombine /\ [][NextCombine]_vars

\* several calls, and the caller writing to the dicts it was returned
InitKwargs ==
    /\ heap = InitialHeap
    /\ results = <<>>
    /\ build = NoBuild
    /\ ClientIdle

NextKwargs ==
    \/ ChooseArgs(FewInputs)
    \/ Combine
    \/ MutateResult

SpecKwargs == InitKwargs /\ [][NextKwargs]_vars

-----------------------------------------------------------------------------
(* The client handles: __init__, _init_sync_client, _init_async_client *)

EnvValues == {"unset", "empty", "set"}

\* a test for None only: an empty value passes
KeyMissingNoneOnly(e) == e = "unset"

\* lines 28-29 and 34-35: api_key = os.getenv("OPENAI_API_KEY"); if not api_key
KeyMissing(e) == e \in {"unset", "empty"}

\* the handle id that OpenAI() or AsyncOpenAI() yields next
NewHandle == Len(handles) + 1

\* __init__, lines 21-25.  When _init_sync_client raises, no instance exists.
Construct ==
    /\ constructed = "no"
    /\ IF KeyMissing(env)
       THEN /\ constructed' = ConfigurationError
            /\ UNCHANGED <<sync_client, async_client, handles>>
       ELSE /\ constructed' = "ok"
            /\ handles' = Append(handles, "sync")
            /\ sync_client' = NewHandle
            /\ async_client' = 0
    /\ UNCHANGED <<env, requests, calls>>
    /\ UNCHANGED kwargsVars

\* the process environment changes
SetEnv ==
    /\ \E e \in EnvValues \ {env} : env' = e
    /\ UNCHANGED <<constructed, sync_client, async_client, handles, requests, calls>>
    /\ UNCHANGED kwargsVars

-----------------------------------------------------------------------------
(* _call and _acall under backoff.on_exception(backoff.expo, ..., max_time=5) *)

\* line 73 and line 95: max_time=5
MaxTime == 5

\* the exception tuple without RateLimitError
RetryableWithoutRateLimit ==
    {"APITimeoutError", "InternalServerError", "UnprocessableEntityError", "BadRequestError"}

\* the exception tuple widened to every provider error
RetryableEverything ==
    {"APITimeoutError", "InternalServerError", "RateLimitError",
     "UnprocessableEntityError", "BadRequestError", "AuthenticationError",
     "APIConnectionError"}

\* lines 66-72 and 88-94: the exceptions the decorator retries on
RetryableErrors ==
    {"APITimeoutError", "InternalServerError", "RateLimitError",
     "UnprocessableEntityError", "BadRequestError"}

\* What an attempt can end in: the provider's answer, one of the five failures
\* imported on lines 11-17, or a failure the decorator does not name
\* (APIConnectionError is the parent class of APITimeoutError, not a subclass
\* of anything in the tuple).
Outcomes ==
    {"Success", "APITimeoutError", "InternalServerError", "RateLimitError",
     "UnprocessableEntityError", "BadRequestError", "AuthenticationError",
     "APIConnectionError"}

\* the outcomes of the behaviours with two concurrent calls
FewOutcomes == {"Success", "RateLimitError", "AuthenticationError"}

\* backoff.expo: the wait before retry n+1 is at most 2^(n-1) seconds
Expo(n) == 2 ^ (n - 1)

Min(a, b) == IF a < b THEN a ELSE b

\* the test with > for >=
GiveUpLate(elapsed) == elapsed > MaxTime

\* the decorator's test after a failure: max_time_exceeded = elapsed >= max_time,
\* elapsed being the time from the first attempt to the start of this one
GiveUp(elapsed) == elapsed >= MaxTime

\* the sleeps the decorator can choose after failure number tries: full jitter
\* over the exponential value, capped by what is left of max_time
Sleeps(tries, elapsed) == { Min(j, MaxTime - elapsed) : j \in 0..Expo(tries) }

NoResult == [status |-> "none", value |-> "", attempt |-> 0]

IdleCall ==
    [pc |-> "idle", kind |-> "sync", model_type |-> "UNDEFINED", tries |-> 0,
     now |-> 0, elapsed |-> 0, last |-> "", failures |-> 0, retried |-> {},
     sleeps |-> 0, late |-> 0, made |-> 0, client |-> 0, result |-> NoResult]

\* The fields of a call: pc is "idle", "try" (the decorator's loop is about to
\* begin an attempt), "init", "assign", "send" (inside _acall: before line 104's
\* call, before its assignment, before line 105), "inflight" (the body waits
\* for the provider), "returned" or "raised"; made is the handle _acall has
\* constructed and not yet assigned; tries, elapsed are the decorator's; now is the time since the
\* call started; last is the outcome of the latest attempt completed, failures
\* the number of attempts that failed, retried the failures the decorator went
\* on after, sleeps the number of sleeps, late the number of attempts begun
\* MaxTime or more after the start; client is the handle of the latest request.
Slots == DOMAIN calls

\* the caller invokes _call (kind "sync") or _acall (kind "async"): the
\* decorator's wrapper starts with tries = 0 and start = now
Start(c, model_types) ==
    /\ constructed = "ok"
    /\ calls[c].pc = "idle"
    /\ \E kind \in {"sync", "async"}, model_type \in model_types :
           calls' = [calls EXCEPT ![c] =
                        [IdleCall EXCEPT !.pc = "try", !.kind = kind,
                                         !.model_type = model_type]]
    /\ UNCHANGED <<env, constructed, sync_client, async_client, handles, requests>>
    /\ UNCHANGED kwargsVars

\* the test of line 103 left out: every _acall constructs a handle
AlwaysInit(client) == TRUE

\* line 103: if self.async_client is None
NeedsAsyncInit(client) == client = 0

\* the SDK method each supported model type is sent to
Endpoint(model_type) ==
    IF model_type = "EMBEDDER" THEN "embeddings.create" ELSE "chat.completions.create"

Supported(model_type) == model_type \in {"EMBEDDER", "LLM"}

\* the exception leaves the decorator: the call is over
Raise(call, error) ==
    [call EXCEPT !.pc = "raised",
                 !.result = [status |-> "raised", value |-> error, attempt |-> call.tries]]

\* the body's request goes out on handle client: lines 79-84 and 105-110
Send(c, call, client) ==
    IF Supported(call.model_type)
    THEN /\ requests' = requests \cup
                {[kind |-> call.kind, client |-> client,
                  endpoint |-> Endpoint(call.model_type)]}
         /\ calls' = [calls EXCEPT ![c] =
                         [call EXCEPT !.pc = "inflight", !.client = client]]
    ELSE /\ calls' = [calls EXCEPT ![c] = Raise(call, UnsupportedModelTypeError)]
         /\ UNCHANGED requests

\* The decorator begins an attempt (tries += 1, elapsed measured) and enters
\* the body.  _call reads self.sync_client and sends its request, lines 79-84.
\* _acall makes the test of line 103 and goes on to construct a handle or to
\* send.  The callers of two slots may be two threads, so the steps of _acall
\* between the test and the request are steps of their own.
BeginAttempt(c) ==
    LET call == [calls[c] EXCEPT !.tries = @ + 1, !.elapsed = calls[c].now,
                                 !.late = IF calls[c].now >= MaxTime THEN @ + 1 ELSE @]
    IN  /\ calls[c].pc = "try"
        /\ IF call.kind = "sync"
           THEN Send(c, call, sync_client)
           ELSE /\ calls' = [calls EXCEPT ![c] =
                                [call EXCEPT !.pc = IF NeedsAsyncInit(async_client)
                                                    THEN "init" ELSE "send"]]
                /\ UNCHANGED requests
        /\ UNCHANGED <<env, constructed, sync_client, async_client, handles>>
        /\ UNCHANGED kwargsVars

\* _init_async_client(), lines 33-37, called from line 104: the value is held
\* by the caller until it is assigned
InitAsyncClient(c) ==
    /\ calls[c].pc = "init"
    /\ IF KeyMissing(env)
       THEN /\ calls' = [calls EXCEPT ![c] = Raise(calls[c], ConfigurationError)]
            /\ UNCHANGED handles
       ELSE /\ handles' = Append(handles, "async")
            /\ calls' = [calls EXCEPT ![c] =
                            [calls[c] EXCEPT !.pc = "assign", !.made = NewHandle]]
    /\ UNCHANGED <<env, constructed, sync_client, async_client, requests>>
    /\ UNCHANGED kwargsVars

\* line 104: self.async_client = (the handle just made)
AssignAsyncClient(c) ==
    /\ calls[c].pc = "assign"
    /\ async_client' = calls[c].made
    /\ calls' = [calls EXCEPT ![c] = [calls[c] EXCEPT !.pc = "send"]]
    /\ UNCHANGED <<env, constructed, sync_client, handles, requests>>
    /\ UNCHANGED kwargsVars

\* lines 105-110: _acall reads self.async_client and sends its request
SendAsync(c) ==
    /\ calls[c].pc = "send"
    /\ Send(c, calls[c], async_client)
    /\ UNCHANGED <<env, constructed, sync_client, async_client, handles>>
    /\ UNCHANGED kwargsVars

\* The request of the attempt in flight completes after dur seconds, with an
\* outcome that is the provider's to choose.  A result
\* is returned; a failure outside the tuple propagates; a failure in the tuple
\* is re-raised when GiveUp, and otherwise the decorator sleeps and loops.
CompleteAttempt(c, outcomes, durs) ==
    LET call == calls[c]
    IN  /\ call.pc = "inflight"
        /\ \E outcome \in outcomes, dur \in durs :
             LET done == [call EXCEPT !.now = @ + dur,
                                      !.last = outcome,
                                      !.failures = IF outcome = "Success" THEN @ ELSE @ + 1]
             IN  IF outcome = "Success"
                 THEN calls' = [calls EXCEPT ![c] =
                                   [done EXCEPT !.pc = "returned",
                                                !.result = [status |-> "returned",
                                                            value |-> outcome,
                                                            attempt |-> call.tries]]]
                 ELSE IF outcome \notin RetryableErrors \/ GiveUp(call.elapsed)
                 THEN calls' = [calls EXCEPT ![c] = Raise(done, outcome)]
                 ELSE \E seconds \in Sleeps(call.tries, call.elapsed) :
                          calls' = [calls EXCEPT ![c] =
                                       [done EXCEPT !.pc = "try",
                                                    !.retried = @ \cup {outcome},
                                                    !.now = @ + seconds,
                                                    !.sleeps = @ + 1]]
        /\ UNCHANGED <<env, constructed, sync_client, async_client, handles, requests>>
        /\ UNCHANGED kwargsVars

\* the call has returned or raised and its caller goes on: the slot is free
\* for the caller's next _call or _acall on the same instance
Forget(c) ==
    /\ calls[c].pc \in {"returned", "raised"}
    /\ calls' = [calls EXCEPT ![c] = IdleCall]
    /\ UNCHANGED <<env, constructed, sync_client, async_client, handles, requests>>
    /\ UNCHANGED kwargsVars

KwargsIdle ==
    /\ heap = InitialHeap
    /\ results = <<>>
    /\ build = NoBuild

\* One call at a time on a constructed client, every outcome, every timing
InitRetry ==
    /\ KwargsIdle
    /\ env = "set"
    /\ constructed = "ok"
    /\ handles = <<"sync">>
    /\ sync_client = 1
    /\ async_client = 0
    /\ requests = {}
    /\ calls = <<IdleCall>>

NextRetry ==
    \/ \E c \in Slots : Start(c, {"EMBEDDER", "LLM"})
    \/ \E c \in Slots : BeginAttempt(c)
    \/ \E c \in Slots : InitAsyncClient(c)
    \/ \E c \in Slots : AssignAsyncClient(c)
    \/ \E c \in Slots : SendAsync(c)
    \/ \E c \in Slots : CompleteAttempt(c, Outcomes, 1..MaxDur)

SpecRetry == InitRetry /\ [][NextRetry]_vars

\* the same, with every step that can be taken eventually taken: the thread
\* or event loop keeps running and the provider answers or times out
FairRetry == SpecRetry /\ WF_vars(NextRetry)

\* Construction and then one call in each of two slots, each slot a caller of its own (a
\* thread, or a coroutine of some thread's event loop), while the environment
\* changes and the caller builds a request dict
InitClient ==
    /\ heap = InitialHeap
    /\ results = <<>>
    /\ build = [status |-> "pending", input |-> Str("x"), base |-> 2,
                model_type |-> "EMBEDDER", ref |-> 0, before |-> InitialHeap[2],
                after |-> EmptyDict, value |-> EmptyDict]
    /\ env \in EnvValues
    /\ constructed = "no"
    /\ handles = <<>>
    /\ sync_client = 0
    /\ async_client = 0
    /\ requests = {}
    /\ calls = <<IdleCall, IdleCall>>

NextClient ==
    \/ Construct
    \/ Combine
    \/ SetEnv
    \/ \E c \in Slots : Start(c, {"LLM", "UNDEFINED"})
    \/ \E c \in Slots : BeginAttempt(c)
    \/ \E c \in Slots : InitAsyncClient(c)
    \/ \E c \in Slots : AssignAsyncClient(c)
    \/ \E c \in Slots : SendAsync(c)
    \/ \E c \in Slots : CompleteAttempt(c, FewOutcomes, {MaxDur})

SpecClient == InitClient /\ [][NextClient]_vars

\* One thread runs every operation, the coroutines on its event loop.  A
\* coroutine keeps the thread from one await to the next: _acall awaits on
\* lines 106 and 108 only (the provider's answer) and the decorator awaits its
\* sleep, so nothing else runs between line 103's test and the request.  _call
\* awaits nothing: it keeps the thread from its invocation to its end.
HoldsThread(call) ==
    IF call.kind = "sync"
    THEN call.pc \in {"try", "inflight"}
    ELSE call.pc \in {"init", "assign", "send"}

\* the call in slot c can take a step: no other call holds the thread
MayRun(c) == \A d \in Slots \ {c} : ~HoldsThread(calls[d])

\* the caller's own code can run: no call holds the thread
ThreadFree == \A d \in Slots : ~HoldsThread(calls[d])

\* Construction and then any number of calls, two at a time, all on one thread:
\* the _acall invocations interleave at their awaits, and only there.  The
\* environment can change at any time.
InitLoop ==
    /\ heap = InitialHeap
    /\ results = <<>>
    /\ build = [status |-> "pending", input |-> Str("x"), base |-> 2,
                model_type |-> "EMBEDDER", ref |-> 0, before |-> InitialHeap[2],
                after |-> EmptyDict, value |-> EmptyDict]
    /\ env \in EnvValues
    /\ constructed = "no"
    /\ handles = <<>>
    /\ sync_client = 0
    /\ async_client = 0
    /\ requests = {}
    /\ calls = <<IdleCall, IdleCall>>

NextLoop ==
    \/ ThreadFree /\ Construct
    \/ ThreadFree /\ Combine
    \/ SetEnv
    \/ \E c \in Slots : MayRun(c) /\ Start(c, {"LLM", "UNDEFINED"})
    \/ \E c \in Slots : MayRun(c) /\ BeginAttempt(c)
    \/ \E c \in Slots : MayRun(c) /\ InitAsyncClient(c)
    \/ \E c \in Slots : MayRun(c) /\ AssignAsyncClient(c)
    \/ \E c \in Slots : MayRun(c) /\ SendAsync(c)
    \/ \E c \in Slots : MayRun(c) /\ CompleteAttempt(c, FewOutcomes, {MaxDur})
    \/ \E c \in Slots : MayRun(c) /\ Forget(c)

SpecLoop == InitLoop /\ [][NextLoop]_vars

Unsupported == ModelTypes \ {"EMBEDDER", "LLM"}

\* Every operation once, with a model type that is neither EMBEDDER nor LLM,
\* on a constructed client whose environment may have changed since
InitUnsupported ==
    /\ heap = InitialHeap
    /\ results = <<>>
    /\ \E input \in AllInputs, base \in Bases, model_type \in Unsupported :
           build = [status |-> "pending", input |-> input, base |-> base,
                    model_type |-> model_type, ref |-> 0, before |-> InitialHeap[base],
                    after |-> EmptyDict, value |-> EmptyDict]
    /\ env \in EnvValues
    /\ constructed = "ok"
    /\ handles = <<"sync">>
    /\ sync_client = 1
    /\ async_client = 0
    /\ requests = {}
    /\ calls = <<IdleCall, IdleCall>>

NextUnsupported ==
    \/ Combine
    \/ \E c \in Slots : Start(c, Unsupported)
    \/ \E c \in Slots : BeginAttempt(c)
    \/ \E c \in Slots : InitAsyncClient(c)
    \/ \E c \in Slots : AssignAsyncClient(c)
    \/ \E c \in Slots : SendAsync(c)

SpecUnsupported == InitUnsupported /\ [][NextUnsupported]_vars

-----------------------------------------------------------------------------
(* Claims about _combine_input_and_model_kwargs *)

BuildDone == build.status \notin {"none", "pending"}

\* the mapping d with key k added or replaced by v, and nothing else changed
IsPlusKey(m, d, k, v) ==
    /\ DOMAIN m = (DOMAIN d) \cup {k}
    /\ m[k] = v
    /\ \A x \in (DOMAIN d) \ {k} : m[x] = d[x]

\* C4: the dict passed as combined_model_kwargs holds the same keys and values
\* after every call as before it, whether the call returns or raises; every
\* returned dict is a new object, none of them the argument and no two the
\* same; and a key written to one returned dict shows in that dict only.
C4_BaseOptionsNeverMutated ==
    /\ \A b \in Bases : heap[b] = InitialHeap[b]
    /\ BuildDone => build.after = build.before
    /\ \A i \in DOMAIN results :
           /\ results[i].ref \notin Bases
           /\ heap[results[i].ref] = results[i].expect
           /\ \A j \in DOMAIN results : i # j => results[i].ref # results[j].ref

\* C4 witness: two dicts returned for the same argument, the first then
\* written to by the caller and the second not
C4_Witness ==
    /\ Len(results) = 2
    /\ results[1].base = results[2].base
    /\ "input" \in DOMAIN heap[results[1].ref]
    /\ "input" \in DOMAIN heap[results[2].ref]
    /\ heap[results[1].ref]["input"] = ChangedValue
    /\ heap[results[2].ref]["input"] # ChangedValue
    /\ heap[results[1].base] = InitialHeap[results[1].base]

\* C8: with model_type EMBEDDER, a str or Sequence input gives the argument
\* dict plus the key "input"; the value stored is [x] for a str x and the input
\* itself for any other sequence, so never a bare str; any other input raises
\* the assertion error and returns nothing.
C8_EmbedderInput ==
    (BuildDone /\ build.model_type = "EMBEDDER") =>
        IF build.input.type \in SequenceTypes
        THEN /\ build.status = "ok"
             /\ IsPlusKey(build.value, build.before, "input",
                          IF build.input.type = "str"
                          THEN List(<<build.input.text>>)
                          ELSE build.input)
             /\ build.value["input"].type \in SequenceTypes \ {"str"}
        ELSE /\ build.status = InvalidInputError
             /\ build.ref = 0

\* C8 witness: the str "x" was wrapped into ["x"]
C8_Witness ==
    /\ build.status = "ok"
    /\ build.model_type = "EMBEDDER"
    /\ build.input = Str("x")
    /\ build.value["input"] = List(<<"x">>)

\* C9: with model_type LLM, a Sequence input gives the argument dict plus the
\* key "messages" holding the input itself (same items, same order, not
\* wrapped), with the key "input" present only if the argument had it; any
\* other input raises the assertion error and returns nothing.
C9_LLMMessages ==
    (BuildDone /\ build.model_type = "LLM") =>
        IF build.input.type \in SequenceTypes
        THEN /\ build.status = "ok"
             /\ IsPlusKey(build.value, build.before, "messages", build.input)
             /\ "input" \in DOMAIN build.value <=> "input" \in DOMAIN build.before
        ELSE /\ build.status = InvalidInputError
             /\ build.ref = 0

\* C9 witness: a two-message list stored in order under "messages" of a copy
\* of a dict that has no "input"
C9_Witness ==
    /\ build.status = "ok"
    /\ build.model_type = "LLM"
    /\ build.input = List(<<"b", "a">>)
    /\ build.value["messages"].items = <<"b", "a">>
    /\ "input" \notin DOMAIN build.value

-----------------------------------------------------------------------------
(* Claims about _call, _acall and the handles *)

\* the failures the retry policy is stated for
ClaimedRetryable ==
    {"APITimeoutError", "InternalServerError", "RateLimitError",
     "UnprocessableEntityError", "BadRequestError"}

Finished(c) == calls[c].pc \in {"returned", "raised"}

\* C1: a call that returns has seen k failures, all of them in the retryable
\* set, and then a success: it returns that success, from attempt k+1, having
\* made exactly k+1 attempts; and while failures are in the retryable set and
\* the failing attempt began less than 5 seconds after the first, the call is
\* not given up.
C1_SuccessAfterRetries ==
    \A c \in Slots :
        /\ calls[c].pc = "returned" =>
               /\ calls[c].result = [status |-> "returned", value |-> "Success",
                                     attempt |-> calls[c].failures + 1]
               /\ calls[c].tries = calls[c].failures + 1
               /\ calls[c].sleeps = calls[c].failures
               /\ calls[c].retried \subseteq ClaimedRetryable
        /\ (calls[c].pc = "raised" /\ calls[c].result.value \in ClaimedRetryable) =>
               calls[c].elapsed >= MaxTime

\* C1 witness: [RateLimited, RateLimited, Success] returned after 3 attempts,
\* inside the budget
C1_Witness ==
    \E c \in Slots :
        /\ calls[c].pc = "returned"
        /\ calls[c].retried = {"RateLimitError"}
        /\ calls[c].failures = 2
        /\ calls[c].tries = 3
        /\ calls[c].now < MaxTime

\* C2 as stated, in the part the code does not keep: once more than 5 seconds
\* have passed since the first attempt, no further attempt begins.
C2_NoAttemptPastBudget ==
    \A c \in Slots : calls[c].tries > 0 => calls[c].elapsed <= MaxTime

\* C2, amended: every call ends; the decorator gives up at the first retryable
\* failure of an attempt that began 5 seconds or more after the first attempt,
\* so at most one attempt begins that late; and what is raised then is the
\* failure of the last attempt made.
C2_TerminatesRaisingLast ==
    /\ [](\A c \in Slots :
             /\ calls[c].late <= 1
             /\ calls[c].pc = "try" => calls[c].elapsed < MaxTime
             /\ (calls[c].pc = "raised" /\ calls[c].last \in ClaimedRetryable) =>
                    /\ calls[c].result = [status |-> "raised", value |-> calls[c].last,
                                          attempt |-> calls[c].tries]
                    /\ calls[c].failures = calls[c].tries
                    /\ calls[c].elapsed >= MaxTime
                    /\ calls[c].now >= MaxTime)
    /\ (\E c \in Slots : calls[c].pc # "idle") ~> (\A c \in Slots : Finished(c))

\* C2 witness: four BadRequest failures, the last one from an attempt begun
\* after the budget was used up, raised
C2_Witness ==
    \E c \in Slots :
        /\ calls[c].pc = "raised"
        /\ calls[c].result.value = "BadRequestError"
        /\ calls[c].retried = {"BadRequestError"}
        /\ calls[c].tries = 4
        /\ calls[c].elapsed > MaxTime

\* C3: a failure outside the retryable set ends the call where it occurs: it
\* is what the call raises, the attempt it came from is the last one, no sleep
\* follows it, and only failures in the set are ever retried after.
C3_OtherFailuresPropagate ==
    \A c \in Slots :
        /\ calls[c].retried \subseteq ClaimedRetryable
        /\ calls[c].last \notin ClaimedRetryable \cup {"Success", ""} =>
               /\ calls[c].pc = "raised"
               /\ calls[c].result = [status |-> "raised", value |-> calls[c].last,
                                     attempt |-> calls[c].tries]
               /\ calls[c].sleeps = calls[c].tries - 1

\* C3 witness: an authentication failure on the first attempt, raised with
\* nearly all of the budget left and no sleep made
C3_Witness ==
    \E c \in Slots :
        /\ calls[c].pc = "raised"
        /\ calls[c].result.value = "AuthenticationError"
        /\ calls[c].tries = 1
        /\ calls[c].sleeps = 0
        /\ calls[c].now < MaxTime

HandlesOfKind(kind) == {h \in DOMAIN handles : handles[h] = kind}

\* C5: under every interleaving of concurrent _acall invocations at their
\* awaits, they send their requests on the same handle: at most one AsyncOpenAI
\* is ever constructed, every request of every _acall goes out on it, and it
\* is the one that self.async_client holds.
C5_OneAsyncHandle ==
    /\ Cardinality(HandlesOfKind("async")) <= 1
    /\ \A r \in requests :
           r.kind = "async" => /\ r.client = async_client
                               /\ HandlesOfKind("async") = {r.client}
    /\ \A c \in Slots :
           (calls[c].kind = "async" /\ calls[c].pc = "inflight") =>
               calls[c].client = async_client

\* C5 witness: two first _acall invocations are in flight at once, each on its
\* first attempt, both on the one async handle there is
C5_Witness ==
    /\ Cardinality(HandlesOfKind("async")) = 1
    /\ async_client \in HandlesOfKind("async")
    /\ \A c \in Slots : /\ calls[c].kind = "async"
                        /\ calls[c].pc = "inflight"
                        /\ calls[c].tries = 1
                        /\ calls[c].client = async_client
    /\ [kind |-> "async", client |-> async_client,
        endpoint |-> "chat.completions.create"] \in requests

\* the call in slot c takes the step it has at position pc
Steps(c, pc) == calls[c].pc = pc /\ calls'[c] # calls[c]

\* C6: over any sequence of _combine_input_and_model_kwargs, _call and _acall
\* on one instance, construction that succeeds leaves a sync handle and no
\* async handle; the async handle is set only by an _acall; a handle once set
\* is never replaced or cleared, across retried attempts too; so there is never
\* more than one handle of each kind.
C6_HandleLifecycle ==
    /\ [](/\ constructed = "ok" => (sync_client # 0 /\ handles[sync_client] = "sync")
          /\ constructed # "ok" => (sync_client = 0 /\ async_client = 0)
          /\ async_client # 0 => handles[async_client] = "async"
          /\ Cardinality(HandlesOfKind("sync")) <= 1
          /\ Cardinality(HandlesOfKind("async")) <= 1)
    /\ [][/\ (constructed = "no" /\ constructed' = "ok") =>
                 (sync_client' # 0 /\ async_client' = 0)
          /\ sync_client # 0 => sync_client' = sync_client
          /\ async_client # 0 => async_client' = async_client
          /\ async_client' # async_client =>
                 \E c \in Slots : calls[c].kind = "async" /\ Steps(c, "assign")]_vars

\* C6 witness: after a dict was built and a _call sent its request on the sync
\* handle, an _acall that failed once is in flight again, on the one async
\* handle, which is the second and last handle of the instance
C6_Witness ==
    /\ constructed = "ok"
    /\ build.status = "ok"
    /\ handles = <<"sync", "async">>
    /\ sync_client = 1
    /\ async_client = 2
    /\ \E r \in requests : r.kind = "sync" /\ r.client = sync_client
    /\ \E c \in Slots : /\ calls[c].kind = "async"
                        /\ calls[c].pc = "inflight"
                        /\ calls[c].tries = 2
                        /\ calls[c].retried = {"RateLimitError"}
                        /\ calls[c].client = async_client

\* the credential is unset or empty
CredentialMissing == env \in {"unset", "empty"}

\* C7: construction with the credential missing raises the configuration error
\* and leaves no handle and no request; an _acall that comes to construct the
\* async handle with the credential missing raises the configuration error
\* from that attempt, with no handle made, none assigned (self.async_client is
\* what it was: None if it was None) and no request sent; and a call that
\* raised it makes no further attempt.
C7_MissingCredential ==
    /\ [](/\ constructed = ConfigurationError =>
                 (handles = <<>> /\ requests = {} /\ sync_client = 0 /\ async_client = 0)
          /\ \A c \in Slots :
                 calls[c].result.value = ConfigurationError =>
                     /\ calls[c].pc = "raised"
                     /\ calls[c].result.attempt = calls[c].tries
                     /\ calls[c].sleeps = calls[c].tries - 1)
    /\ [][/\ (constructed = "no" /\ constructed' # "no" /\ CredentialMissing) =>
                 (constructed' = ConfigurationError /\ handles' = handles)
          /\ \A c \in Slots :
                 (Steps(c, "init") /\ CredentialMissing) =>
                     /\ calls'[c].pc = "raised"
                     /\ calls'[c].result.value = ConfigurationError
                     /\ async_client' = async_client
                     /\ handles' = handles
                     /\ requests' = requests]_vars

\* C7 witness: the first _acall ran with the credential set to the empty
\* string and raised the configuration error, leaving the async handle absent
C7_Witness ==
    /\ constructed = "ok"
    /\ env = "empty"
    /\ async_client = 0
    /\ HandlesOfKind("async") = {}
    /\ \E c \in Slots : /\ calls[c].kind = "async"
                        /\ calls[c].pc = "raised"
                        /\ calls[c].result.value = ConfigurationError
                        /\ calls[c].tries = 1

\* what the three operations leave behind for an unsupported model type, but
\* for the error a finished call raised
UnsupportedLeavesNothing ==
    /\ BuildDone => /\ build.ref = 0
                    /\ build.value = EmptyDict
                    /\ heap = InitialHeap
    /\ requests = {}
    /\ \A c \in Slots :
           /\ calls[c].pc \notin {"inflight", "returned"}
           /\ calls[c].tries <= 1
           /\ calls[c].sleeps = 0
           /\ calls[c].pc = "raised" => calls[c].tries = 1

\* C10 as stated: with a model type outside {EMBEDDER, LLM}, each of the three
\* operations raises the unsupported-model-type error, returns nothing, sends
\* no request and makes one attempt.
C10_AlwaysUnsupportedError ==
    /\ UnsupportedLeavesNothing
    /\ BuildDone => build.status = UnsupportedModelTypeError
    /\ \A c \in Slots : Finished(c) =>
           calls[c].result.value = UnsupportedModelTypeError

\* C10, amended: the same, except that an _acall which finds no async handle
\* and no credential raises the configuration error instead.
C10_UnsupportedOrConfigurationError ==
    /\ UnsupportedLeavesNothing
    /\ BuildDone => build.status = UnsupportedModelTypeError
    /\ \A c \in Slots : Finished(c) =>
           calls[c].result.value =
               IF calls[c].kind = "async" /\ async_client = 0
               THEN ConfigurationError
               ELSE UnsupportedModelTypeError
    /\ \A c \in Slots : (Finished(c) /\ calls[c].kind = "async" /\ async_client = 0) =>
           CredentialMissing

\* C10 witness: all three operations were run with UNDEFINED and each raised
\* the unsupported-model-type error
C10_Witness ==
    /\ build.status = UnsupportedModelTypeError
    /\ build.model_type = "UNDEFINED"
    /\ \A kind \in {"sync", "async"} :
           \E c \in Slots : /\ calls[c].pc = "raised"
                            /\ calls[c].kind = kind
                            /\ calls[c].model_type = "UNDEFINED"
                            /\ calls[c].result.value = UnsupportedModelTypeError

====
